---- MODULE Spec2Model ----
(***************************************************************************)
(* syz-stress (tools/syz-stress/stress.go): the startup pipeline of main,  *)
(* the worker goroutines it spawns, and execute, as a state machine.       *)
(* External collaborators (feature flags, target lookup, host probing,     *)
(* ipc.MakeEnv, env.Exec, the program generator) are nondeterministic       *)
(* choices over the results they can hand back.                            *)
(***************************************************************************)
EXTENDS Integers, Sequences, FiniteSets

\* ------------------------------------------------------------- bounds
\* Largest value of -procs explored.
MaxProcs == 2
\* Largest number of records in the corpus database.
MaxRecords == 2
\* execute is entered at most MaxExec times in total (caps statExec and i) ...
MaxExec == 3
\* ... and at most MaxSoloExec times when there is a single worker, which
\* takes that worker through iterations 0..3 and into iteration 4.
MaxSoloExec == 9

\* Longest -syscalls string explored.
MaxFlagLen == 3

\* ------------------------------------------------------------- constants
\* runtime.GOOS, and the values of -os explored.
GOOS == "linux"
OSes == {"linux", "akaros"}
\* target.Syscalls: three calls with one-letter names.
Syscalls == {"A", "B", "C"}
\* The characters of a -syscalls string.
FlagChars == Syscalls \cup {","}
NoTicket == -1
NoOwner == -1
NoProg == 0
Unalloc == [origin |-> "none", muts |-> 0]
NoResult == [hanged |-> FALSE, err |-> FALSE]

\* Goroutine slots: the k-th goroutine main starts lives in slot k.
Slots == 0 .. MaxProcs
\* Program objects: one per corpus record, and the object a worker currently
\* owns (a fresh allocation per Generate or Clone; the previous one is garbage).
CorpusRefs == 1 .. MaxRecords
PrivRef(w) == MaxRecords + 1 + w
Refs == CorpusRefs \cup {PrivRef(w) : w \in Slots}

VARIABLES
    flagCorpus,     \* -corpus: "" or the path of a database
    flagOutput,     \* -output
    flagProcs,      \* -procs
    flagLogProg,    \* -logprog
    flagGenerate,   \* -generate
    mainpc,         \* position of main
    fatal,          \* "none", or the message of the log.Fatalf / panic that ended the process
    db,             \* the opened corpus database: [open, records], records over {"good","bad"}
    corpus,         \* main's corpus: sequence of program object references
    heap,           \* program objects: reference -> value
    gateCap,        \* capacity of gate, -1 while gate is nil
    gateBusy,       \* ticket handles outstanding
    spawnPid,       \* loop variable pid of main's spawn loop
    nGor,           \* number of goroutines started
    pc,             \* per slot: position of the goroutine
    wid,            \* per slot: the pid the goroutine captured
    iter,           \* per slot: loop counter i
    branch,         \* per slot: branch taken by the current iteration
    call,           \* per slot: which execute call of the iteration (1 or 2)
    p,              \* per slot: the program the iteration works on
    ticket,         \* per slot: ticket held by the current execute call
    res,            \* per slot: (hanged, err) of the current execute call's env.Exec
    statExec,       \* the atomic counter
    execCalls,      \* number of env.Exec invocations issued (history)
    outMu,          \* holder of outMu, NoOwner when unlocked
    flagOS,         \* -os
    flagSyscalls,   \* -syscalls: a string, as the sequence of its characters
    deps,           \* the target: call -> the calls it depends on
    bclpc,          \* position inside buildCallList ("idle" outside of it)
    bclSteps,       \* which collaborators buildCallList has called (history)
    supported,      \* the enabled set host.DetectSupportedSyscalls returned (history)
    calls,          \* buildCallList's calls
    disabled        \* buildCallList's disabled

flags == <<flagCorpus, flagOutput, flagProcs, flagLogProg, flagGenerate>>
mainv == <<mainpc, db, corpus, spawnPid, nGor>>
gatev == <<gateCap, gateBusy>>
workv == <<pc, wid, iter, branch, call, p, ticket, res>>
callv == <<flagOS, flagSyscalls, deps, bclpc, bclSteps, supported, calls, disabled>>
vars == <<flags, mainv, gatev, workv, fatal, heap, statExec, execCalls, outMu, callv>>

\* The number of execute calls explored with the given number of workers.
ExecCap(procs) == IF procs <= 1 THEN MaxSoloExec ELSE MaxExec

\* The process is alive: log.Fatalf and a panic end it, and nothing runs afterwards.
Running == fatal = "none"

\* All sequences over S of length at most n.
RECURSIVE SeqsUpTo(_, _)
SeqsUpTo(S, n) ==
    IF n = 0 THEN {<<>>}
    ELSE LET shorter == SeqsUpTo(S, n - 1)
         IN  shorter \cup {Append(s, x) : s \in {t \in shorter : Len(t) = n - 1}, x \in S}

\* The package variables and main's locals before main has done anything.
InitState ==
    /\ fatal = "none"
    /\ db = [open |-> FALSE, records |-> <<>>]
    /\ corpus = <<>>
    /\ heap = [r \in Refs |-> Unalloc]
    /\ gateCap = -1
    /\ gateBusy = {}
    /\ spawnPid = 0
    /\ nGor = 0
    /\ pc = [w \in Slots |-> "unborn"]
    /\ wid = [w \in Slots |-> -1]
    /\ iter = [w \in Slots |-> 0]
    /\ branch = [w \in Slots |-> "none"]
    /\ call = [w \in Slots |-> 0]
    /\ p = [w \in Slots |-> NoProg]
    /\ ticket = [w \in Slots |-> NoTicket]
    /\ res = [w \in Slots |-> NoResult]
    /\ statExec = 0
    /\ execCalls = 0
    /\ outMu = NoOwner

\* -os and -syscalls at their defaults, buildCallList not entered.
InitCallList ==
    /\ flagOS = GOOS
    /\ flagSyscalls = <<>>
    /\ deps = [c \in Syscalls |-> {}]
    /\ bclpc = "idle"
    /\ bclSteps = {}
    /\ supported = {}
    /\ calls = {}
    /\ disabled = {}

Init ==
    /\ flagCorpus \in {"", "corpus.db"}
    /\ flagOutput \in BOOLEAN
    /\ flagProcs \in 0 .. MaxProcs
    /\ flagLogProg \in BOOLEAN
    /\ flagGenerate \in BOOLEAN
    /\ mainpc = "parseFeaturesFlags"
    /\ InitState
    /\ InitCallList

\* ------------------------------------------------------------- startup (main)

\* A startup call into a collaborator that returns an error or not; an error is
\* log.Fatalf.
StartupCall(at, next, msg) ==
    /\ Running
    /\ mainpc = at
    /\ \E ok \in BOOLEAN :
          IF ok THEN mainpc' = next /\ fatal' = fatal
                ELSE mainpc' = mainpc /\ fatal' = msg
    /\ UNCHANGED <<flags, callv, db, corpus, spawnPid, nGor, gatev, workv,
                   heap, statExec, execCalls, outMu>>

ParseFeaturesFlags == StartupCall("parseFeaturesFlags", "getTarget", "bad feature flags")

GetTarget == StartupCall("getTarget", "readCorpus", "unknown target")

RECURSIVE DeserializeAll_skip(_, _, _)
DeserializeAll_skip(recs, k, progs) ==
    IF k > Len(recs) THEN <<TRUE, progs>>
    ELSE IF recs[k] = "bad" THEN DeserializeAll_skip(recs, k + 1, progs)
    ELSE DeserializeAll_skip(recs, k + 1, Append(progs, k))

\* readCorpus' loop over db.Records: the programs deserialized from recs[k..],
\* appended to progs; <<FALSE, _>> when a record fails to deserialize.
RECURSIVE DeserializeAll(_, _, _)
DeserializeAll(recs, k, progs) ==
    IF k > Len(recs) THEN <<TRUE, progs>>
    ELSE IF recs[k] = "bad" THEN <<FALSE, progs>>
    ELSE DeserializeAll(recs, k + 1, Append(progs, k))

\* The program target.Deserialize(rec.Val, prog.NonStrict) returns for a record
\* it can parse.
Loaded(rec) == [origin |-> "corpus", muts |-> 0]

ReadCorpus ==
    /\ Running
    /\ mainpc = "readCorpus"
    /\ IF flagCorpus = ""
       THEN /\ corpus' = <<>>
            /\ mainpc' = "nothingToMutate"
            /\ UNCHANGED <<db, heap, fatal>>
       ELSE \E openOk \in BOOLEAN, recs \in SeqsUpTo({"good", "bad"}, MaxRecords) :
              IF ~openOk
              THEN /\ fatal' = "failed to open corpus database"
                   /\ UNCHANGED <<db, corpus, heap, mainpc>>
              ELSE LET r == DeserializeAll(recs, 1, <<>>)
                   IN  /\ db' = [open |-> TRUE, records |-> recs]
                       /\ IF r[1]
                          THEN /\ corpus' = r[2]
                               /\ heap' = [x \in Refs |->
                                             IF \E j \in 1 .. Len(r[2]) : r[2][j] = x
                                             THEN Loaded(recs[x])
                                             ELSE heap[x]]
                               /\ mainpc' = "nothingToMutate"
                               /\ fatal' = fatal
                          ELSE /\ fatal' = "failed to deserialize corpus program"
                               /\ UNCHANGED <<corpus, heap, mainpc>>
    /\ UNCHANGED <<flags, callv, spawnPid, nGor, gatev, workv, statExec,
                   execCalls, outMu>>

NothingToMutate_inverted(generate, n) == generate /\ n = 0

\* if !*flagGenerate && len(corpus) == 0
NothingToMutate(generate, n) == ~generate /\ n = 0

CheckNothingToMutate ==
    /\ Running
    /\ mainpc = "nothingToMutate"
    /\ IF NothingToMutate(flagGenerate, Len(corpus))
       THEN fatal' = "nothing to mutate (-generate=false and no corpus)"
            /\ mainpc' = mainpc
       ELSE fatal' = fatal /\ mainpc' = "hostCheck"
    /\ UNCHANGED <<flags, callv, db, corpus, spawnPid, nGor, gatev, workv,
                   heap, statExec, execCalls, outMu>>

HostCheck == StartupCall("hostCheck", "hostSetup", "host.Check failed")

HostSetup == StartupCall("hostSetup", "buildCallList", "host.Setup failed")

\* buildCallList ends the process when detection or allow-list parsing fails.
BuildCallList == StartupCall("buildCallList", "ipcconfig", "failed to build call list")

IpcConfigDefault == StartupCall("ipcconfig", "newGate", "ipcconfig.Default failed")

GateCapacity_procs(procs) == procs

\* ipc.NewGate(2**flagProcs, nil)
GateCapacity(procs) == 2 * procs

NewGate ==
    /\ Running
    /\ mainpc = "newGate"
    /\ gateCap' = GateCapacity(flagProcs)
    /\ gateBusy' = {}
    /\ mainpc' = "spawn"
    /\ spawnPid' = 0
    /\ UNCHANGED <<flags, callv, db, corpus, nGor, workv, fatal, heap,
                   statExec, execCalls, outMu>>

SpawnMore_inclusive(pid, procs) == pid <= procs

\* for pid := 0; pid < *flagProcs; pid++
SpawnMore(pid, procs) == pid < procs

\* One turn of the spawn loop: pid := pid; go func() {...}(); pid++ -- or the
\* loop's exit into the ticker loop.
Spawn ==
    /\ Running
    /\ mainpc = "spawn"
    /\ IF SpawnMore(spawnPid, flagProcs)
       THEN /\ nGor \in Slots
            /\ pc' = [pc EXCEPT ![nGor] = "makeEnv"]
            /\ wid' = [wid EXCEPT ![nGor] = spawnPid]
            /\ nGor' = nGor + 1
            /\ spawnPid' = spawnPid + 1
            /\ mainpc' = mainpc
       ELSE /\ mainpc' = "ticker"
            /\ UNCHANGED <<pc, wid, nGor, spawnPid>>
    /\ UNCHANGED <<flags, callv, db, corpus, gatev, iter, branch, call, p,
                   ticket, res, fatal, heap, statExec, execCalls, outMu>>

\* for range time.NewTicker(...).C { log.Logf(0, ..., atomic.LoadUint64(&statExec)) }
\* The counter is read atomically and logged; no state of the program changes.
Tick ==
    /\ Running
    /\ mainpc = "ticker"
    /\ statExec \in Nat
    /\ UNCHANGED vars

Main ==
    \/ ParseFeaturesFlags
    \/ GetTarget
    \/ ReadCorpus
    \/ CheckNothingToMutate
    \/ HostCheck
    \/ HostSetup
    \/ BuildCallList
    \/ IpcConfigDefault
    \/ NewGate
    \/ Spawn
    \/ Tick

\* ------------------------------------------------------------- gate (ipc.Gate)

\* Enter can return: a capacity slot is free.
GateCanEnter == Cardinality(gateBusy) < gateCap

\* The handle Enter returns: a slot not in use.
GateFreeHandle == CHOOSE h \in 0 .. gateCap - 1 : h \notin gateBusy /\
                      \A g \in 0 .. gateCap - 1 : g \notin gateBusy => h <= g

\* What Leave(t) leaves outstanding: the slot of t is released.
GateAfterLeave(t) == gateBusy \ {t}

\* ------------------------------------------------------------- workers

\* What Generate returns: a new program that stems from no corpus entry.
Generated == [origin |-> "generated", muts |-> 0]

\* p.Mutate(rs, programLength, ct, corpus): an edit of the object in place.
MutateVal(v) == [v EXCEPT !.muts = v.muts + 1]

CloneRef_alias(w, src) == src

\* corpus[k].Clone(): the object the clone lives in, a new one owned by w.
CloneRef(w, src) == PrivRef(w)

GenerateBranch_noEmptyCheck(generate, n, i) == i % 4 # 0

GenerateBranch_inverted(generate, n, i) == (generate /\ n = 0) \/ i % 4 = 0

\* if *flagGenerate && len(corpus) == 0 || i%4 != 0
GenerateBranch(generate, n, i) == (generate /\ n = 0) \/ i % 4 # 0

\* env, err := ipc.MakeEnv(config, pid); an error is log.Fatalf. Then the
\* RNG is seeded and the loop starts with i = 0.
MakeEnv(w) ==
    /\ Running
    /\ pc[w] = "makeEnv"
    /\ \E ok \in BOOLEAN :
          IF ok THEN /\ pc' = [pc EXCEPT ![w] = "loop"]
                     /\ iter' = [iter EXCEPT ![w] = 0]
                     /\ fatal' = fatal
                ELSE /\ fatal' = "failed to create execution environment"
                     /\ UNCHANGED <<pc, iter>>
    /\ UNCHANGED <<flags, callv, mainv, gatev, wid, branch, call, p, ticket, res,
                   heap, statExec, execCalls, outMu>>

\* Top of one iteration up to its first execute call: the branch decision,
\* then Generate, or Clone of a random corpus entry followed by Mutate.
\* rnd.Intn(0) panics.
Loop(w) ==
    /\ Running
    /\ pc[w] = "loop"
    /\ IF GenerateBranch(flagGenerate, Len(corpus), iter[w])
       THEN /\ branch' = [branch EXCEPT ![w] = "generate"]
            /\ p' = [p EXCEPT ![w] = PrivRef(w)]
            /\ heap' = [heap EXCEPT ![PrivRef(w)] = Generated]
            /\ pc' = [pc EXCEPT ![w] = "execute"]
            /\ call' = [call EXCEPT ![w] = 1]
            /\ fatal' = fatal
       ELSE IF Len(corpus) = 0
       THEN /\ fatal' = "panic: invalid argument to Intn"
            /\ UNCHANGED <<branch, p, heap, pc, call>>
       ELSE \E idx \in 0 .. Len(corpus) - 1 :
              LET src == corpus[idx + 1]
                  ref == CloneRef(w, src)
              IN  /\ branch' = [branch EXCEPT ![w] = "mutate"]
                  /\ p' = [p EXCEPT ![w] = ref]
                  /\ heap' = [heap EXCEPT ![ref] = MutateVal(heap[src])]
                  /\ pc' = [pc EXCEPT ![w] = "execute"]
                  /\ call' = [call EXCEPT ![w] = 1]
                  /\ fatal' = fatal
    /\ UNCHANGED <<flags, callv, mainv, gatev, wid, iter, ticket, res, statExec,
                   execCalls, outMu>>

Add_twice(w) ==
    /\ Running
    /\ pc[w] = "execute"
    /\ statExec < ExecCap(flagProcs)
    /\ statExec' = statExec + 2
    /\ pc' = [pc EXCEPT ![w] = IF flagLogProg THEN "enter" ELSE "exec"]
    /\ UNCHANGED <<flags, callv, mainv, gatev, wid, iter, branch, call, p, ticket, res,
                   fatal, heap, execCalls, outMu>>

\* execute: atomic.AddUint64(&statExec, 1); if *flagLogProg ...
\* (statExec stays below ExecCap, far from the wrap of a uint64.)
Add(w) ==
    /\ Running
    /\ pc[w] = "execute"
    /\ statExec < ExecCap(flagProcs)
    /\ statExec' = statExec + 1
    /\ pc' = [pc EXCEPT ![w] = IF flagLogProg THEN "enter" ELSE "exec"]
    /\ UNCHANGED <<flags, callv, mainv, gatev, wid, iter, branch, call, p, ticket, res,
                   fatal, heap, execCalls, outMu>>

\* ticket := gate.Enter(); defer gate.Leave(ticket)
Enter(w) ==
    /\ Running
    /\ pc[w] = "enter"
    /\ GateCanEnter
    /\ ticket' = [ticket EXCEPT ![w] = GateFreeHandle]
    /\ gateBusy' = gateBusy \cup {GateFreeHandle}
    /\ pc' = [pc EXCEPT ![w] = "lock"]
    /\ UNCHANGED <<flags, callv, mainv, gateCap, wid, iter, branch, call, p, res,
                   fatal, heap, statExec, execCalls, outMu>>

Lock_noWait(w) ==
    /\ Running
    /\ pc[w] = "lock"
    /\ outMu' = w
    /\ pc' = [pc EXCEPT ![w] = "locked"]
    /\ UNCHANGED <<flags, callv, mainv, gatev, wid, iter, branch, call, p, ticket, res,
                   fatal, heap, statExec, execCalls>>

\* outMu.Lock()
Lock(w) ==
    /\ Running
    /\ pc[w] = "lock"
    /\ outMu = NoOwner
    /\ outMu' = w
    /\ pc' = [pc EXCEPT ![w] = "locked"]
    /\ UNCHANGED <<flags, callv, mainv, gatev, wid, iter, branch, call, p, ticket, res,
                   fatal, heap, statExec, execCalls>>

Unlock_keep(w) ==
    /\ Running
    /\ pc[w] = "locked"
    /\ pc' = [pc EXCEPT ![w] = "exec"]
    /\ UNCHANGED <<flags, callv, mainv, gatev, wid, iter, branch, call, p, ticket, res,
                   fatal, heap, statExec, execCalls, outMu>>

Unlock_leave(w) ==
    /\ Running
    /\ pc[w] = "locked"
    /\ outMu' = NoOwner
    /\ gateBusy' = GateAfterLeave(ticket[w])
    /\ ticket' = [ticket EXCEPT ![w] = NoTicket]
    /\ pc' = [pc EXCEPT ![w] = "exec"]
    /\ UNCHANGED <<flags, callv, mainv, gateCap, wid, iter, branch, call, p, res,
                   fatal, heap, statExec, execCalls>>

\* fmt.Printf("executing program %v\n%s\n", pid, p.Serialize()); outMu.Unlock().
\* The block ends and the deferred Leave stays pending.
Unlock(w) ==
    /\ Running
    /\ pc[w] = "locked"
    /\ outMu' = NoOwner
    /\ pc' = [pc EXCEPT ![w] = "exec"]
    /\ UNCHANGED <<flags, callv, mainv, gatev, wid, iter, branch, call, p, ticket, res,
                   fatal, heap, statExec, execCalls>>

\* env.Exec(execOpts, p) is invoked.
Exec(w) ==
    /\ Running
    /\ pc[w] = "exec"
    /\ execCalls' = execCalls + 1
    /\ pc' = [pc EXCEPT ![w] = "running"]
    /\ UNCHANGED <<flags, callv, mainv, gatev, wid, iter, branch, call, p, ticket, res,
                   fatal, heap, statExec, outMu>>

\* hanged || err != nil || *flagOutput
Dump(r) == r.hanged \/ r.err \/ flagOutput

ExecReturn_fatal(w) ==
    /\ Running
    /\ pc[w] = "running"
    /\ \E h \in BOOLEAN, e \in BOOLEAN :
          LET r == [hanged |-> h, err |-> e]
          IN  /\ res' = [res EXCEPT ![w] = r]
              /\ pc' = [pc EXCEPT ![w] = IF e \/ Dump(r) THEN "report" ELSE "return"]
              /\ fatal' = IF e THEN "failed to execute executor" ELSE fatal
    /\ UNCHANGED <<flags, callv, mainv, gatev, wid, iter, branch, call, p, ticket,
                   heap, statExec, execCalls, outMu>>

ExecReturn_retry(w) ==
    /\ Running
    /\ pc[w] = "running"
    /\ \E h \in BOOLEAN, e \in BOOLEAN :
          LET r == [hanged |-> h, err |-> e]
          IN  /\ res' = [res EXCEPT ![w] = IF e THEN NoResult ELSE r]
              /\ pc' = [pc EXCEPT ![w] = IF e THEN "execute"
                                         ELSE IF Dump(r) THEN "report" ELSE "return"]
    /\ UNCHANGED <<flags, callv, mainv, gatev, wid, iter, branch, call, p, ticket,
                   fatal, heap, statExec, execCalls, outMu>>

\* env.Exec returns (output, _, hanged, err).
ExecReturn(w) ==
    /\ Running
    /\ pc[w] = "running"
    /\ \E h \in BOOLEAN, e \in BOOLEAN :
          LET r == [hanged |-> h, err |-> e]
          IN  /\ res' = [res EXCEPT ![w] = r]
              /\ pc' = [pc EXCEPT ![w] = IF e \/ Dump(r) THEN "report" ELSE "return"]
    /\ UNCHANGED <<flags, callv, mainv, gatev, wid, iter, branch, call, p, ticket,
                   fatal, heap, statExec, execCalls, outMu>>

Report_locked(w) ==
    /\ Running
    /\ pc[w] = "report"
    /\ outMu = NoOwner
    /\ pc' = [pc EXCEPT ![w] = "return"]
    /\ res' = [res EXCEPT ![w] = NoResult]
    /\ UNCHANGED <<flags, callv, mainv, gatev, wid, iter, branch, call, p, ticket,
                   fatal, heap, statExec, execCalls, outMu>>

\* The writes to the console after Exec: "failed to execute executor" when
\* err != nil, then "PROGRAM:" with the program and the raw output when
\* hanged || err != nil || *flagOutput. No lock is taken. output, hanged and
\* err are not used again.
Report(w) ==
    /\ Running
    /\ pc[w] = "report"
    /\ res[w].err \/ Dump(res[w])
    /\ pc' = [pc EXCEPT ![w] = "return"]
    /\ res' = [res EXCEPT ![w] = NoResult]
    /\ UNCHANGED <<flags, callv, mainv, gatev, wid, iter, branch, call, p, ticket,
                   fatal, heap, statExec, execCalls, outMu>>

Return_noLeave(w) ==
    /\ Running
    /\ pc[w] = "return"
    /\ IF call[w] = 1
       THEN /\ heap' = [heap EXCEPT ![p[w]] = MutateVal(heap[p[w]])]
            /\ call' = [call EXCEPT ![w] = 2]
            /\ pc' = [pc EXCEPT ![w] = "execute"]
            /\ UNCHANGED <<iter, branch, p>>
       ELSE /\ pc' = [pc EXCEPT ![w] = "loop"]
            /\ iter' = [iter EXCEPT ![w] = iter[w] + 1]
            /\ branch' = [branch EXCEPT ![w] = "none"]
            /\ call' = [call EXCEPT ![w] = 0]
            /\ p' = [p EXCEPT ![w] = NoProg]
            /\ heap' = IF p[w] = PrivRef(w)
                       THEN [heap EXCEPT ![PrivRef(w)] = Unalloc]
                       ELSE heap
    /\ UNCHANGED <<flags, callv, mainv, gatev, ticket, wid, res, fatal, statExec, execCalls, outMu>>

\* execute returns: the deferred gate.Leave(ticket) runs if it was registered.
\* After the first call of an iteration the worker mutates p in place
\* (p.Mutate(rs, programLength, ct, corpus)) and calls execute again; after
\* the second, i++.
Return(w) ==
    /\ Running
    /\ pc[w] = "return"
    /\ IF flagLogProg
       THEN /\ gateBusy' = GateAfterLeave(ticket[w])
            /\ ticket' = [ticket EXCEPT ![w] = NoTicket]
       ELSE UNCHANGED <<gateBusy, ticket>>
    /\ IF call[w] = 1
       THEN /\ heap' = [heap EXCEPT ![p[w]] = MutateVal(heap[p[w]])]
            /\ call' = [call EXCEPT ![w] = 2]
            /\ pc' = [pc EXCEPT ![w] = "execute"]
            /\ UNCHANGED <<iter, branch, p>>
       ELSE /\ pc' = [pc EXCEPT ![w] = "loop"]
            /\ iter' = [iter EXCEPT ![w] = iter[w] + 1]
            /\ branch' = [branch EXCEPT ![w] = "none"]
            /\ call' = [call EXCEPT ![w] = 0]
            /\ p' = [p EXCEPT ![w] = NoProg]
            /\ heap' = IF p[w] = PrivRef(w)
                       THEN [heap EXCEPT ![PrivRef(w)] = Unalloc]
                       ELSE heap
    /\ UNCHANGED <<flags, callv, mainv, gateCap, wid, res, fatal, statExec, execCalls, outMu>>

Worker(w) ==
    \/ MakeEnv(w)
    \/ Loop(w)
    \/ Add(w)
    \/ Enter(w)
    \/ Lock(w)
    \/ Unlock(w)
    \/ Exec(w)
    \/ ExecReturn(w)
    \/ Report(w)
    \/ Return(w)

\* ------------------------------------------------------------- properties

\* The worker in slot w is inside an execute call (past the atomic add, not yet returned).
InExecute(w) == pc[w] \in {"enter", "lock", "locked", "exec", "running", "report", "return"}

\* The goroutine of slot w exists.
Started(w) == pc[w] # "unborn"

\* The positions of main before the gate is created.
StartupSteps == {"parseFeaturesFlags", "getTarget", "readCorpus", "nothingToMutate",
                 "hostCheck", "hostSetup", "buildCallList", "ipcconfig"}

\* The slots whose worker holds a ticket.
Holders == {w \in Slots : ticket[w] # NoTicket}

\* C1: for procs >= 1 the gate is created with capacity N = 2*procs, and in
\* every reachable state the number of tickets entered and not yet left is at
\* most N (each outstanding handle is held by exactly one worker).
C1_GateNeverOverCapacity ==
    (flagProcs >= 1 /\ gateCap # -1) =>
        /\ gateCap = 2 * flagProcs
        /\ Cardinality(gateBusy) <= gateCap
        /\ Cardinality(Holders) = Cardinality(gateBusy)
        /\ gateBusy = {ticket[w] : w \in Holders}

\* Two tickets are outstanding at once.
C1_Witness == flagProcs = 2 /\ Cardinality(gateBusy) = 2 /\ Cardinality(Holders) = 2

\* C2: whenever no worker is inside execute, statExec equals the number of
\* env.Exec invocations issued so far; and every step leaves statExec alone
\* or adds exactly 1 to it (it is never reset).
C2_CounterMatchesExecs ==
    /\ []((\A w \in Slots : ~InExecute(w)) => statExec = execCalls)
    /\ [][statExec' = statExec \/ statExec' = statExec + 1]_vars

\* Two workers have run, several executions are done and none is in flight.
C2_Witness ==
    /\ statExec >= 3
    /\ \A w \in Slots : ~InExecute(w)
    /\ \E v, w \in Slots : v # w /\ call[v] >= 1 /\ iter[w] >= 1

C4_CorpusOnlyWhenGenerateOff ==
    ~flagGenerate =>
        \A w \in Slots :
            /\ branch[w] # "generate"
            /\ p[w] # NoProg => heap[p[w]].origin = "corpus"

\* C5: with generate=false and an empty corpus, main gets no further than the
\* "nothing to mutate" check: the gate is never created, no goroutine is
\* started, env.Exec is never invoked and statExec stays 0; and main leaves
\* that check only by the fatal exit.
C5_NothingToMutateIsFatal ==
    (~flagGenerate /\ Len(corpus) = 0) =>
        /\ mainpc \in {"parseFeaturesFlags", "getTarget", "readCorpus", "nothingToMutate"}
        /\ gateCap = -1
        /\ \A w \in Slots : ~Started(w)
        /\ nGor = 0
        /\ execCalls = 0
        /\ statExec = 0

\* The process has ended at the check, with an opened database that holds no record.
C5_Witness ==
    /\ ~flagGenerate
    /\ db.open
    /\ Len(corpus) = 0
    /\ mainpc = "nothingToMutate"
    /\ fatal = "nothing to mutate (-generate=false and no corpus)"

\* The program objects of the corpus.
CorpusObjects == {corpus[k] : k \in 1 .. Len(corpus)}

\* C6: once the corpus is loaded, every entry keeps the value it was loaded
\* with; a worker's program is never a corpus object (it is generated or a
\* clone), and no program object is held by two workers.
C6_CorpusNeverMutated ==
    /\ \A k \in 1 .. Len(corpus) : heap[corpus[k]] = Loaded(db.records[k])
    /\ \A w \in Slots : p[w] # NoProg => p[w] \notin CorpusObjects
    /\ \A v, w \in Slots : (v # w /\ p[v] # NoProg) => p[v] # p[w]

\* Two workers hold mutated clones of corpus entries at the same time, one of
\* them mutated twice.
C6_Witness ==
    \E v, w \in Slots :
        /\ v # w
        /\ p[v] # NoProg /\ p[w] # NoProg
        /\ heap[p[v]].origin = "corpus" /\ heap[p[v]].muts = 2
        /\ heap[p[w]].origin = "corpus" /\ heap[p[w]].muts >= 1

\* C7 as stated: the process ends fatally only while no worker has started,
\* and never after an Executor invocation.
C7_FatalOnlyBeforeWorkers ==
    fatal # "none" => (\A w \in Slots : ~Started(w)) /\ execCalls = 0

\* C7 amended: the process ends fatally either in startup, before the gate
\* exists and before any goroutine is started, or in a worker goroutine whose
\* ipc.MakeEnv failed, before that worker's first iteration; a worker past
\* MakeEnv never ends the process.
C7_FatalInStartupOrMakeEnv ==
    fatal # "none" =>
        \/ /\ mainpc \in StartupSteps
           /\ gateCap = -1
           /\ \A w \in Slots : ~Started(w)
           /\ execCalls = 0
        \/ /\ fatal = "failed to create execution environment"
           /\ mainpc \in {"spawn", "ticker"}
           /\ \E w \in Slots : pc[w] = "makeEnv" /\ branch[w] = "none" /\ iter[w] = 0

\* A worker's MakeEnv failure ends the process after another worker has
\* invoked the Executor.
C7_Witness ==
    /\ fatal = "failed to create execution environment"
    /\ execCalls >= 1
    /\ \E w \in Slots : pc[w] = "running"

\* The state of the worker in slot w.
WorkerState(w) == <<pc[w], wid[w], iter[w], branch[w], call[w], p[w], ticket[w], res[w]>>

\* C8: whatever env.Exec returns (error, hang or success), the step does not
\* end the process, changes nothing of any other worker or of the shared
\* state, and leaves the worker on the one path every execute call takes:
\* the console writes, the return, then the second call of the iteration or
\* the next iteration (i + 1) -- no retry, no second increment of statExec.
C8_ExecResultIsLocal ==
    [][\A w \in Slots :
         /\ (pc[w] = "running" /\ pc'[w] # "running") =>
               /\ fatal' = "none"
               /\ pc'[w] \in {"report", "return"}
               /\ res'[w].err => pc'[w] = "report"
               /\ <<iter'[w], branch'[w], call'[w], p'[w], ticket'[w]>>
                     = <<iter[w], branch[w], call[w], p[w], ticket[w]>>
               /\ \A v \in Slots \ {w} : WorkerState(v)' = WorkerState(v)
               /\ <<statExec', execCalls', heap', gateBusy', outMu'>>
                     = <<statExec, execCalls, heap, gateBusy, outMu>>
         /\ (pc[w] = "report" /\ pc'[w] # "report") =>
               /\ pc'[w] = "return"
               /\ <<iter'[w], call'[w], statExec', fatal'>> = <<iter[w], call[w], statExec, fatal>>
         /\ (pc[w] = "return" /\ pc'[w] # "return") =>
               /\ statExec' = statExec
               /\ fatal' = fatal
               /\ call[w] = 1 => pc'[w] = "execute" /\ call'[w] = 2 /\ iter'[w] = iter[w]
               /\ call[w] = 2 => pc'[w] = "loop" /\ iter'[w] = iter[w] + 1
      ]_vars

\* An Executor call has returned an error and a hang while another worker's
\* call is in progress.
C8_Witness ==
    \E v, w \in Slots :
        /\ v # w
        /\ pc[v] = "report" /\ res[v].err /\ res[v].hanged
        /\ pc[w] = "running"

\* C9: once the spawn loop is finished, exactly procs goroutines exist, in
\* slots 0..procs-1, each with its own pid in 0..procs-1; and at no time are
\* there more than procs.
C9_ExactlyProcsWorkers ==
    /\ nGor <= flagProcs
    /\ {w \in Slots : Started(w)} = 0 .. nGor - 1
    /\ \A v, w \in 0 .. nGor - 1 : v # w => wid[v] # wid[w]
    /\ \A w \in 0 .. nGor - 1 : wid[w] \in 0 .. flagProcs - 1
    /\ mainpc = "ticker" => nGor = flagProcs

\* Both of two workers are in their loops after the spawn loop has ended.
C9_Witness ==
    /\ mainpc = "ticker"
    /\ flagProcs = 2
    /\ \A w \in 0 .. 1 : pc[w] \notin {"unborn", "makeEnv"} /\ wid[w] = w

\* C10 as stated: no worker holds a gate ticket while its Executor call is
\* in progress.
C10_NoTicketDuringExec ==
    \A w \in Slots : pc[w] \in {"exec", "running"} => ticket[w] = NoTicket

\* C10 amended: with logprog set, the ticket a worker acquired before the
\* print is still outstanding while its Executor call is in progress and
\* until execute returns; outside execute, and without logprog, a worker
\* holds no ticket.
C10_TicketHeldUntilReturn ==
    \A w \in Slots :
        /\ (flagLogProg /\ pc[w] \in {"lock", "locked", "exec", "running", "report", "return"})
              => ticket[w] \in gateBusy
        /\ (~flagLogProg \/ ~InExecute(w) \/ pc[w] = "enter") => ticket[w] = NoTicket

\* With logprog set, a worker's Executor call is in progress and its ticket
\* is outstanding.
C10_Witness ==
    /\ flagLogProg
    /\ \E w \in Slots : pc[w] = "running" /\ ticket[w] \in gateBusy

\* The workers between outMu.Lock() and outMu.Unlock().
InPrintSection == {w \in Slots : pc[w] = "locked"}

\* C11: the "executing program" print is mutually exclusive: at most one
\* worker is between outMu.Lock and outMu.Unlock, that worker is the holder
\* of outMu, and it is there only with logprog set and while it holds a gate
\* ticket; outMu is held by nobody else.
C11_PrintMutualExclusion ==
    /\ Cardinality(InPrintSection) <= 1
    /\ \A w \in InPrintSection : outMu = w /\ flagLogProg /\ ticket[w] \in gateBusy
    /\ outMu # NoOwner => outMu \in InPrintSection

\* One worker is printing its program while another, holding its own ticket,
\* waits for outMu.
C11_Witness ==
    \E v, w \in Slots :
        /\ pc[v] = "locked" /\ outMu = v
        /\ pc[w] = "lock" /\ ticket[w] \in gateBusy /\ ticket[w] # ticket[v]

\* This step is a write of worker v to the console: its "executing program"
\* print, or its dump after Exec.
ConsoleWrite(v) ==
    \/ pc[v] = "locked" /\ pc'[v] = "exec"
    \/ pc[v] = "report" /\ pc'[v] = "return"

\* Worker w has printed its program and will print the output of that
\* execution: it is about to dump, or -output makes every execute call dump.
BetweenProgramAndOutput(w) ==
    /\ flagLogProg
    /\ \/ pc[w] = "report"
       \/ flagOutput /\ pc[w] \in {"exec", "running"}

\* C12 as stated: between a worker's print of its program and its print of
\* that execution's raw output, no other worker writes to the console.
C12_NoWriteBetweenProgramAndOutput ==
    [][\A v, w \in Slots :
         (v # w /\ BetweenProgramAndOutput(w)) => ~ConsoleWrite(v)]_vars

\* C12 amended: outMu covers the "executing program" print only. It is
\* released with that print, before env.Exec is invoked, so no worker from
\* the Exec call to the return of execute holds it, and the dump after Exec is
\* written by a worker that does not hold outMu and leaves outMu alone.
C12_MutexCoversProgramPrintOnly ==
    /\ [](\A w \in Slots : pc[w] \in {"exec", "running", "report", "return"} => outMu # w)
    /\ [][\A v \in Slots :
            /\ (pc[v] = "locked" /\ pc'[v] = "exec") => (outMu = v /\ outMu' = NoOwner)
            /\ (pc[v] = "report" /\ pc'[v] = "return") => (outMu # v /\ outMu' = outMu)
         ]_vars

\* With logprog set, a worker is about to dump the output of its execution
\* while another worker is inside the print section with its program.
C12_Witness ==
    /\ flagLogProg
    /\ \E v, w \in Slots : v # w /\ pc[w] = "report" /\ pc[v] = "locked" /\ outMu = v

\* main holds the corpus readCorpus returned.
CorpusPublished == mainpc \notin {"parseFeaturesFlags", "getTarget", "readCorpus"}

\* C17: readCorpus returns the empty corpus, without opening anything, when
\* the path is empty; otherwise it returns one program per record of the
\* opened database, the k-th program being the one deserialized from the
\* k-th record, and all records parsed. If it ends the process instead, main
\* never got a corpus and no worker exists.
C17_ReadCorpusAllOrFatal ==
    /\ (CorpusPublished /\ flagCorpus = "") => (corpus = <<>> /\ ~db.open)
    /\ (CorpusPublished /\ flagCorpus # "") =>
          /\ db.open
          /\ Len(corpus) = Len(db.records)
          /\ \A k \in 1 .. Len(db.records) :
                /\ db.records[k] = "good"
                /\ corpus[k] = k
                /\ heap[corpus[k]] = Loaded(db.records[k])
    /\ ~CorpusPublished =>
          /\ corpus = <<>>
          /\ \A w \in Slots : ~Started(w)
    /\ fatal \in {"failed to open corpus database", "failed to deserialize corpus program"}
          => ~CorpusPublished

\* A database of two records was read in order and a worker executes with it.
C17_Witness ==
    /\ Len(db.records) = 2
    /\ corpus = <<1, 2>>
    /\ \E w \in Slots : pc[w] = "running"

\* C18: a worker holds a ticket only inside execute, and gives back exactly
\* that ticket when execute returns; so at most procs tickets are outstanding,
\* fewer than the capacity 2*procs, the gate has a free slot whenever a worker
\* stands in Enter, and no ticket is outstanding when no worker is inside
\* execute.
C18_GateNeverFull ==
    /\ [](/\ \A w \in Slots : ticket[w] # NoTicket => (InExecute(w) /\ ticket[w] \in gateBusy)
          /\ \A v, w \in Slots : (v # w /\ ticket[v] # NoTicket) => ticket[v] # ticket[w]
          /\ Cardinality(gateBusy) <= flagProcs
          /\ (gateCap # -1 /\ flagProcs >= 1) => Cardinality(gateBusy) < gateCap
          /\ \A w \in Slots : pc[w] = "enter" => GateCanEnter
          /\ (\A w \in Slots : ~InExecute(w)) => gateBusy = {})
    /\ [][\A w \in Slots :
            (flagLogProg /\ pc[w] = "return" /\ pc'[w] # "return") =>
                /\ ticket[w] \in gateBusy
                /\ gateBusy' = gateBusy \ {ticket[w]}
                /\ ticket'[w] = NoTicket
         ]_vars

\* With two workers, one holds a ticket through its Executor call while the
\* other, in its second execute call, stands in Enter with a slot free.
C18_Witness ==
    /\ flagProcs = 2
    /\ \E v, w \in Slots :
          /\ pc[v] = "running" /\ ticket[v] \in gateBusy
          /\ pc[w] = "enter" /\ call[w] = 2 /\ GateCanEnter

\* C19: a worker on the mutate-from-corpus branch, or at the top of an
\* iteration that will take it, always has a non-empty corpus, so the index
\* rnd.Intn(len(corpus)) exists and the program it works on stems from a
\* corpus entry; the process never dies of Intn(0).
C19_MutateBranchHasCorpus ==
    /\ fatal # "panic: invalid argument to Intn"
    /\ \A w \in Slots :
          /\ branch[w] = "mutate" =>
                (Len(corpus) >= 1 /\ p[w] # NoProg /\ heap[p[w]].origin = "corpus")
          /\ (pc[w] = "loop" /\ ~(flagGenerate /\ Len(corpus) = 0) /\ iter[w] % 4 = 0) =>
                Len(corpus) >= 1

\* With generate=false and a corpus of two entries, a worker executes a
\* mutated clone.
C19_Witness ==
    /\ ~flagGenerate
    /\ Len(corpus) = 2
    /\ \E w \in Slots : branch[w] = "mutate" /\ pc[w] = "running"

Next == Main \/ \E w \in Slots : Worker(w)

Spec == Init /\ [][Next]_vars

\* ------------------------------------------------------------- blocking

\* The worker stands before an execute call the exploration bound cuts off
\* (a limit of the model, not a wait of the program).
BoundReached(w) == pc[w] = "execute" /\ statExec >= ExecCap(flagProcs)

\* The worker in slot w exists, the process runs, and w cannot take a step
\* until another goroutine acts. (A worker inside env.Exec is at "running":
\* the return of the call is its own next step.)
Blocked(w) == Running /\ Started(w) /\ ~BoundReached(w) /\ ~ENABLED Worker(w)

\* C13 as stated: apart from the wait for env.Exec, a worker waits on other
\* workers only in gate.Enter, with logprog set and the capacity exhausted.
C13_OnlyGateWait ==
    \A w \in Slots :
        Blocked(w) => (pc[w] = "enter" /\ flagLogProg /\ Cardinality(gateBusy) >= gateCap)

\* C13 amended: a worker that cannot step stands in gate.Enter with the
\* capacity exhausted, or in outMu.Lock with logprog set while another worker
\* holds outMu inside its print section; nowhere else.
C13_GateOrMutexWait ==
    \A w \in Slots :
        Blocked(w) =>
            \/ pc[w] = "enter" /\ flagLogProg /\ Cardinality(gateBusy) >= gateCap
            \/ /\ pc[w] = "lock" /\ flagLogProg
               /\ outMu \in Slots \ {w}
               /\ pc[outMu] = "locked"

\* A worker waits in outMu.Lock for the worker that is printing.
C13_Witness ==
    \E w \in Slots : Blocked(w) /\ pc[w] = "lock" /\ outMu \in Slots \ {w}

\* ------------------------------------------------------------ buildCallList
\* The dependency relations of the targets explored: no call depends on
\* itself.
DepGraphs == {d \in [Syscalls -> SUBSET Syscalls] : \A c \in Syscalls : c \notin d[c]}

\* strings.Split(s, ","): the fields between the commas. A string without a
\* comma, the empty string included, is one field.
RECURSIVE Split(_)
Split(s) ==
    IF \A i \in 1 .. Len(s) : s[i] # ","
    THEN <<s>>
    ELSE LET i == CHOOSE k \in 1 .. Len(s) :
                      s[k] = "," /\ \A j \in 1 .. k - 1 : s[j] # ","
         IN  <<SubSeq(s, 1, i - 1)>> \o Split(SubSeq(s, i + 1, Len(s)))

\* The condition of the cross-OS branch, always false.
CrossOS_never(os) == FALSE

\* if *flagOS != runtime.GOOS
CrossOS(os) == os # GOOS

\* if len(enabled) != 0
HasAllowList(enabled) == Len(enabled) # 0

\* mgrconfig.ParseEnabledSyscalls(target, enabled, nil): a name that is no
\* call of the target is an error; otherwise the named calls.
ParseEnabledSyscalls(enabled) ==
    LET known(f) == Len(f) = 1 /\ f[1] \in Syscalls
    IN  [err |-> \E i \in 1 .. Len(enabled) : ~known(enabled[i]),
         ids |-> {enabled[i][1] : i \in {j \in 1 .. Len(enabled) : known(enabled[j])}}]

\* The filter loop that deletes nothing.
FilterCalls_keepAll(cs, enabledSyscalls) == cs

\* for c := range calls { if !enabledSyscalls[c] { delete(calls, c) } }
\* (and the same loop over disabled)
FilterCalls(cs, enabledSyscalls) == cs \cap enabledSyscalls

\* target.TransitivelyEnabledCalls(calls): drop the calls with a dependency
\* that is not enabled, until none is left to drop.
RECURSIVE TransitivelyEnabledCalls(_, _)
TransitivelyEnabledCalls(cs, d) ==
    LET keep == {c \in cs : d[c] \subseteq cs}
    IN  IF keep = cs THEN cs ELSE TransitivelyEnabledCalls(keep, d)

\* Lines 175-182: on a target OS other than the host's, every call of the
\* target is returned at once.
BclEnter ==
    /\ Running
    /\ mainpc = "buildCallList"
    /\ bclpc = "enter"
    /\ IF CrossOS(flagOS)
       THEN /\ calls' = Syscalls
            /\ bclpc' = "done"
            /\ mainpc' = "ipcconfig"
       ELSE /\ bclpc' = "detect"
            /\ UNCHANGED <<calls, mainpc>>
    /\ UNCHANGED <<flags, db, corpus, spawnPid, nGor, gatev, workv, fatal, heap,
                   statExec, execCalls, outMu,
                   flagOS, flagSyscalls, deps, bclSteps, supported, disabled>>

\* Lines 183-186: host.DetectSupportedSyscalls fails, or splits the target's
\* calls into the supported and the disabled ones.
BclDetect ==
    /\ Running
    /\ bclpc = "detect"
    /\ bclSteps' = bclSteps \cup {"detect"}
    /\ \E err \in BOOLEAN, sup \in SUBSET Syscalls :
        IF err
        THEN /\ fatal' = "failed to detect host supported syscalls"
             /\ UNCHANGED <<bclpc, supported, calls, disabled>>
        ELSE /\ supported' = sup
             /\ calls' = sup
             /\ disabled' = Syscalls \ sup
             /\ bclpc' = "filter"
             /\ UNCHANGED fatal
    /\ UNCHANGED <<flags, mainv, gatev, workv, heap, statExec, execCalls, outMu,
                   flagOS, flagSyscalls, deps>>

\* Lines 187-206, with enabled as main passes it (line 74): the allow-list is
\* resolved, and calls and disabled are cut down to it.
BclFilter ==
    /\ Running
    /\ bclpc = "filter"
    /\ LET enabled == Split(flagSyscalls)
           r == ParseEnabledSyscalls(enabled)
       IN  IF HasAllowList(enabled)
           THEN /\ bclSteps' = bclSteps \cup {"parse"}
                /\ IF r.err
                   THEN /\ fatal' = "failed to parse enabled syscalls"
                        /\ UNCHANGED <<bclpc, calls, disabled>>
                   ELSE /\ calls' = FilterCalls(calls, r.ids)
                        /\ disabled' = FilterCalls(disabled, r.ids)
                        /\ bclpc' = "closure"
                        /\ UNCHANGED fatal
           ELSE /\ bclpc' = "closure"
                /\ UNCHANGED <<bclSteps, calls, disabled, fatal>>
    /\ UNCHANGED <<flags, mainv, gatev, workv, heap, statExec, execCalls, outMu,
                   flagOS, flagSyscalls, deps, supported>>

\* Lines 207-214: the transitive closure of what is left, returned to main.
BclClosure ==
    /\ Running
    /\ bclpc = "closure"
    /\ bclSteps' = bclSteps \cup {"closure"}
    /\ calls' = TransitivelyEnabledCalls(calls, deps)
    /\ disabled' = calls \ calls'
    /\ bclpc' = "done"
    /\ mainpc' = "ipcconfig"
    /\ UNCHANGED <<flags, db, corpus, spawnPid, nGor, gatev, workv, fatal, heap,
                   statExec, execCalls, outMu,
                   flagOS, flagSyscalls, deps, supported>>

\* main has reached line 74 (one worker asked for, no corpus, generation
\* allowed); -os, -syscalls and the target's dependencies vary.
InitCalls ==
    /\ flagCorpus = ""
    /\ flagOutput = FALSE
    /\ flagProcs = 1
    /\ flagLogProg = FALSE
    /\ flagGenerate = TRUE
    /\ mainpc = "buildCallList"
    /\ InitState
    /\ flagOS \in OSes
    /\ flagSyscalls \in SeqsUpTo(FlagChars, MaxFlagLen)
    /\ deps \in DepGraphs
    /\ bclpc = "enter"
    /\ bclSteps = {}
    /\ supported = {}
    /\ calls = {}
    /\ disabled = {}

NextCalls == BclEnter \/ BclDetect \/ BclFilter \/ BclClosure

SpecCalls == InitCalls /\ [][NextCalls]_vars

\* Every call of the set has its dependencies in the set.
DepClosed(S) == \A c \in S : deps[c] \subseteq S

\* The calls named by the characters of -syscalls.
Allowed == {c \in Syscalls : \E i \in 1 .. Len(flagSyscalls) : flagSyscalls[i] = c}

\* -syscalls=A,B on a host that supports A, B and C, where C is the sole
\* dependency of B and nothing else depends on anything.
ScenarioD ==
    /\ flagOS = GOOS
    /\ flagSyscalls = <<"A", ",", "B">>
    /\ supported = {"A", "B", "C"}
    /\ deps = [c \in Syscalls |-> IF c = "B" THEN {"C"} ELSE {}]

\* C14: on the host's own OS with an allow-list, buildCallList returns the
\* largest dependency-closed subset of the detected calls that are on the
\* allow-list; in scenario D that is exactly {A}.
C14_ClosureOfAllowedDetected ==
    (bclpc = "done" /\ flagOS = GOOS /\ flagSyscalls # <<>>) =>
        /\ calls \subseteq supported \cap Allowed
        /\ DepClosed(calls)
        /\ \A S \in SUBSET (supported \cap Allowed) : DepClosed(S) => S \subseteq calls
        /\ ScenarioD => calls = {"A"}

\* buildCallList has returned in scenario D.
C14_Witness == bclpc = "done" /\ ScenarioD /\ "closure" \in bclSteps

\* C15 as stated: with -syscalls empty on the host's own OS, buildCallList
\* resolves no allow-list, cannot fail on the resolution, and returns the
\* closure of everything the host detection reported.
C15_NoAllowListNoResolution ==
    (flagSyscalls = <<>> /\ flagOS = GOOS) =>
        /\ "parse" \notin bclSteps
        /\ fatal # "failed to parse enabled syscalls"
        /\ bclpc = "done" => calls = TransitivelyEnabledCalls(supported, deps)

\* C16: on a target OS other than the host's, buildCallList detects nothing,
\* filters nothing, closes nothing and cannot fail, and what it returns is
\* every call of the target, whatever -syscalls holds.
C16_CrossOSReturnsAllCalls ==
    flagOS # GOOS =>
        /\ bclSteps = {}
        /\ fatal = "none"
        /\ bclpc \in {"enter", "done"}
        /\ bclpc = "done" => calls = Syscalls

\* buildCallList has returned on another OS although -syscalls names no call
\* of the target and A depends on B.
C16_Witness ==
    /\ flagOS # GOOS
    /\ bclpc = "done"
    /\ flagSyscalls = <<"B", "B">>
    /\ deps["A"] = {"B"}
    /\ calls = Syscalls

\* ------------------------------------------------------------------ progress
\* The worker pool running without end. The two counters are write-only for
\* the workers and are left out here; the iteration counter is kept modulo 4,
\* which is all that the branch decision at line 112 reads of it.

\* execute, lines 135-136, without the count.
AddLive(w) ==
    /\ Running
    /\ pc[w] = "execute"
    /\ pc' = [pc EXCEPT ![w] = IF flagLogProg THEN "enter" ELSE "exec"]
    /\ UNCHANGED <<flags, callv, mainv, gatev, wid, iter, branch, call, p, ticket, res,
                   fatal, heap, statExec, execCalls, outMu>>

\* env.Exec(execOpts, p) is invoked (line 143).
ExecLive(w) ==
    /\ Running
    /\ pc[w] = "exec"
    /\ pc' = [pc EXCEPT ![w] = "running"]
    /\ UNCHANGED <<flags, callv, mainv, gatev, wid, iter, branch, call, p, ticket, res,
                   fatal, heap, statExec, execCalls, outMu>>

\* execute returns without the deferred gate.Leave.
ReturnLive_noLeave(w) ==
    /\ Running
    /\ pc[w] = "return"
    /\ IF call[w] = 1
       THEN /\ heap' = [heap EXCEPT ![p[w]] = MutateVal(heap[p[w]])]
            /\ call' = [call EXCEPT ![w] = 2]
            /\ pc' = [pc EXCEPT ![w] = "execute"]
            /\ UNCHANGED <<iter, branch, p>>
       ELSE /\ pc' = [pc EXCEPT ![w] = "loop"]
            /\ iter' = [iter EXCEPT ![w] = (iter[w] + 1) % 4]
            /\ branch' = [branch EXCEPT ![w] = "none"]
            /\ call' = [call EXCEPT ![w] = 0]
            /\ p' = [p EXCEPT ![w] = NoProg]
            /\ heap' = IF p[w] = PrivRef(w)
                       THEN [heap EXCEPT ![PrivRef(w)] = Unalloc]
                       ELSE heap
    /\ UNCHANGED <<flags, callv, mainv, gatev, ticket, wid, res, fatal, statExec, execCalls, outMu>>

\* execute returns (the deferred gate.Leave of line 138 runs if it was
\* registered); then p.Mutate and the second call, or i++ (lines 120-123).
ReturnLive(w) ==
    /\ Running
    /\ pc[w] = "return"
    /\ IF flagLogProg
       THEN /\ gateBusy' = GateAfterLeave(ticket[w])
            /\ ticket' = [ticket EXCEPT ![w] = NoTicket]
       ELSE UNCHANGED <<gateBusy, ticket>>
    /\ IF call[w] = 1
       THEN /\ heap' = [heap EXCEPT ![p[w]] = MutateVal(heap[p[w]])]
            /\ call' = [call EXCEPT ![w] = 2]
            /\ pc' = [pc EXCEPT ![w] = "execute"]
            /\ UNCHANGED <<iter, branch, p>>
       ELSE /\ pc' = [pc EXCEPT ![w] = "loop"]
            /\ iter' = [iter EXCEPT ![w] = (iter[w] + 1) % 4]
            /\ branch' = [branch EXCEPT ![w] = "none"]
            /\ call' = [call EXCEPT ![w] = 0]
            /\ p' = [p EXCEPT ![w] = NoProg]
            /\ heap' = IF p[w] = PrivRef(w)
                       THEN [heap EXCEPT ![PrivRef(w)] = Unalloc]
                       ELSE heap
    /\ UNCHANGED <<flags, callv, mainv, gateCap, wid, res, fatal, statExec, execCalls, outMu>>

WorkerLive(w) ==
    \/ MakeEnv(w)
    \/ Loop(w)
    \/ AddLive(w)
    \/ Enter(w)
    \/ Lock(w)
    \/ Unlock(w)
    \/ ExecLive(w)
    \/ ExecReturn(w)
    \/ Report(w)
    \/ ReturnLive(w)

\* main from line 100 on.
MainLive == NewGate \/ Spawn \/ Tick

\* The startup pipeline has succeeded with a corpus of one program and
\* generation allowed; main stands before ipc.NewGate (line 100).
InitLive ==
    /\ flagCorpus = "corpus.db"
    /\ flagOutput \in BOOLEAN
    /\ flagProcs \in 1 .. MaxProcs
    /\ flagLogProg \in BOOLEAN
    /\ flagGenerate = TRUE
    /\ mainpc = "newGate"
    /\ fatal = "none"
    /\ db = [open |-> TRUE, records |-> <<"good">>]
    /\ corpus = <<1>>
    /\ heap = [r \in Refs |-> IF r = 1 THEN Loaded("good") ELSE Unalloc]
    /\ gateCap = -1
    /\ gateBusy = {}
    /\ spawnPid = 0
    /\ nGor = 0
    /\ pc = [w \in Slots |-> "unborn"]
    /\ wid = [w \in Slots |-> -1]
    /\ iter = [w \in Slots |-> 0]
    /\ branch = [w \in Slots |-> "none"]
    /\ call = [w \in Slots |-> 0]
    /\ p = [w \in Slots |-> NoProg]
    /\ ticket = [w \in Slots |-> NoTicket]
    /\ res = [w \in Slots |-> NoResult]
    /\ statExec = 0
    /\ execCalls = 0
    /\ outMu = NoOwner
    /\ InitCallList

NextLive == MainLive \/ \E w \in Slots : WorkerLive(w)

\* Weak fairness of main and of every worker: a goroutine that can take a
\* step at every moment from some point on takes one. A call of env.Exec
\* returns by a step of its worker, so every call returns.
SpecLive ==
    /\ InitLive
    /\ [][NextLive]_vars
    /\ WF_vars(NewGate \/ Spawn)
    /\ \A w \in Slots : WF_vars(WorkerLive(w))

\* Worker w completes an iteration: its second execute call returns and i++.
IterationEnd(w) == ReturnLive(w) /\ call[w] = 2

====
